---- MODULE Spec2Model ----
(***************************************************************************)
(* Model of the sensor-integration backend (src/database.js): the sqlite   *)
(* tables, the register/login handlers with the failed-attempt lockout,    *)
(* the JWT session tokens and the device / sensor-data routes.             *)
(*                                                                         *)
(* Every db.get / db.run is asynchronous: the statement executes at one    *)
(* point in time, and the handler continues in a callback.  A handler that *)
(* awaits (bcrypt.compare) or issues a statement whose callback it does    *)
(* not wait for is therefore split at those points into several actions.   *)
(***************************************************************************)
EXTENDS Integers, Sequences, FiniteSets, Bags, TLC

\* ------------------------------------------------------------------ bounds
\* Total number of login requests of one run.
MaxLogins == 4
\* Number of login requests that may be in progress at the same time.
MaxInFlight == 2
\* Number of rows the users table may hold.
MaxUsers == 2
\* Number of rows ever inserted into devices, and into sensor_data.
MaxDeviceRows == 2
MaxReadings == 1
\* Number of sensor-data reads that may be between their two statements.
MaxPendingReads == 1

\* ------------------------------------------------------- program constants
\* `if (newAttempts >= 3)` and `${3 - newAttempts} attempts left`.
LockThreshold == 3
\* `{ expiresIn: '24h' }`, in hours.
TokenLifetime == 24
\* `bcrypt.hash(password, 10)`.
BcryptCost == 10

\* ------------------------------------------------------------ input values
\* "" stands for a field missing from the request body (falsy in JS).
Usernames == {"alice", "bob"}
Emails == {"a@x", "b@x"}
Passwords == {"P1", "X"}
Missing == ""
\* process.env.JWT_SECRET, and a key that is not the process secret.
JWT_SECRET == "JWT_SECRET"
ForgedKey == "forged"
\* The instants, in hours, at which the system is looked at: a token issued at
\* 0 is 1 hour before, at, and 1 hour after its expiry in the last three.
Times == {0, 23, 24, 25}
\* Device identifiers (devices.device_id) a request may name.
DeviceIds == {"dev-1", "dev-2"}
\* (temperature, humidity, pressure) as generate-data may draw them.
Samples == {<<"18.00", "40.00", "980.00">>}
\* Salts bcrypt may draw for one hash.
Salts == {"s1"}
\* The register requests tried: two good ones (a duplicate when repeated) and
\* one with a field missing.
RegisterInputs ==
    {<<"alice", "a@x", "P1">>, <<"bob", "b@x", "P1">>, <<Missing, "a@x", "P1">>}
\* The login requests tried: either password on the first email, a wrong one
\* on the second, and one with a field missing.
LoginInputs == ({"a@x"} \X Passwords) \cup {<<"b@x", "X">>, <<Missing, "P1">>}

VARIABLES
    lockoutColumns, \* does table users have failed_attempts and is_locked?
    users,          \* table users: sequence of rows, id = position
    logins,         \* the login requests in progress or just answered, by slot
    nLogins,        \* number of login requests received so far
    wrongEvaluated, \* per email: wrong guesses compared since the last success
    outcomes,       \* per email: bag of <<password, outcome>> of completed logins
    last,           \* the response of the latest request other than a login
    now,            \* clock, in hours
    tokens,         \* the tokens issued so far
    devices,        \* table devices: set of rows
    deviceSeq,      \* AUTOINCREMENT of devices.id
    sensor_data,    \* table sensor_data: set of rows
    dataSeq,        \* AUTOINCREMENT of sensor_data.id
    reads           \* the sensor-data reads between their two statements

vars == <<lockoutColumns, users, logins, nLogins, wrongEvaluated, outcomes,
          last, now, tokens, devices, deviceSeq, sensor_data, dataSeq, reads>>

\* --------------------------------------------------------------- bcryptjs
\* bcrypt.hash(plaintext, cost): a salted one-way digest; salt and cost are
\* stored in the blob, the plaintext is not recoverable from the model's
\* point of view (only bcryptCompare looks at the digest).
bcryptHash(plaintext, salt) ==
    [cost |-> BcryptCost, salt |-> salt, digest |-> <<salt, plaintext>>]

\* bcrypt.compare(plaintext, blob): re-hash with the blob's salt and compare.
bcryptCompare(plaintext, blob) ==
    bcryptHash(plaintext, blob.salt).digest = blob.digest

\* ------------------------------------------------------------ jsonwebtoken
NoToken == [id |-> 0, username |-> Missing, iat |-> 0, exp |-> 0, key |-> Missing]

\* jwt.sign({id, username}, secret, {expiresIn: '24h'}) at time t.
jwtSign(id, username, secret, t) ==
    [id |-> id, username |-> username, iat |-> t, exp |-> t + TokenLifetime,
     key |-> secret]

\* jwt.verify(token, secret) at time t: the error it passes to the callback,
\* or "ok" (the callback then receives the payload {id, username}).
\* A verify that does not look at the expiry.
jwtVerify_NoExpiry(token, secret, t) ==
    IF token.key # secret THEN "JsonWebTokenError" ELSE "ok"

jwtVerify(token, secret, t) ==
    IF token.key # secret THEN "JsonWebTokenError"
    ELSE IF t >= token.exp THEN "TokenExpiredError"
    ELSE "ok"

\* ------------------------------------------------------------ table users
NoUser == [id |-> 0, username |-> Missing, email |-> Missing,
           password |-> bcryptHash(Missing, Missing),
           failed_attempts |-> 0, is_locked |-> 0]

\* SELECT * FROM users WHERE email = ?  (email is UNIQUE: at most one row).
UserByEmail(email) ==
    IF \E i \in 1..Len(users) : users[i].email = email
    THEN users[CHOOSE i \in 1..Len(users) : users[i].email = email]
    ELSE NoUser

\* A table whose email column is not UNIQUE.
UniqueViolation_UsernameOnly(username, email) ==
    \E i \in 1..Len(users) : users[i].username = username

\* The UNIQUE constraints on username and email.
UniqueViolation(username, email) ==
    \E i \in 1..Len(users) :
        users[i].username = username \/ users[i].email = email

\* INSERT INTO users (username, email, password): AUTOINCREMENT id; the
\* columns failed_attempts and is_locked, where the table has them, take
\* their default.  A column that is absent or NULL reads as undefined/null in
\* the row object, which `user.is_locked === 1` and `user.failed_attempts || 0`
\* treat like 0: both are kept as 0.
NewUser(username, email, hashedPassword) ==
    [id |-> Len(users) + 1, username |-> username, email |-> email,
     password |-> hashedPassword, failed_attempts |-> 0, is_locked |-> 0]

\* ---------------------------------------------------------------- responses
NoResponse == [status |-> 0, error |-> Missing, remaining |-> 0, token |-> NoToken]

Response(status, error) ==
    [status |-> status, error |-> error, remaining |-> 0, token |-> NoToken]

\* res.json({message: 'Login successful', token, user}) and the 201 of register.
TokenResponse(status, token) ==
    [status |-> status, error |-> Missing, remaining |-> 0, token |-> token]

\* `Invalid credentials. ${3 - newAttempts} attempts left.`
AttemptsLeftResponse(newAttempts) ==
    [status |-> 401, error |-> "Invalid credentials. N attempts left.",
     remaining |-> LockThreshold - newAttempts, token |-> NoToken]

NoStatement == [sql |-> "none", attempts |-> 0]

\* The response of a request other than a login, as `last` keeps it:
\*   token   the token in the body (register)
\*   at      the time of the request
\*   bearer  the token the request presented
\*   err     the error jwt.verify passed to authenticateToken's callback
\*   device  the device identifier the request named (sensor data)
\*   rowid   the devices.id the request named (delete)
\*   owner   the owner of that device when the statement ran: "self", "other",
\*           or "none" where no such device existed
\*   rows    the rows in the body
NoLast ==
    [op |-> "none", status |-> 0, error |-> Missing, token |-> NoToken, at |-> 0,
     bearer |-> NoToken, err |-> Missing, device |-> Missing, rowid |-> 0,
     owner |-> Missing, rows |-> {}]

Answer(op, status, error) ==
    [NoLast EXCEPT !.op = op, !.status = status, !.error = error, !.at = now]

\* ------------------------------------------------- POST /api/auth/register
\* One action: the INSERT is the handler's only statement and the response
\* is sent from its callback.
Register(username, email, password, salt) ==
    /\ last = NoLast
    /\ \/ /\ (username = Missing \/ email = Missing \/ password = Missing)
          /\ last' = Answer("register", 400, "All fields are required")
          /\ UNCHANGED <<users, tokens>>
       \/ /\ username # Missing /\ email # Missing /\ password # Missing
          /\ UniqueViolation(username, email)
          /\ last' = Answer("register", 409, "Username or email already exists")
          /\ UNCHANGED <<users, tokens>>
       \/ /\ username # Missing /\ email # Missing /\ password # Missing
          /\ ~UniqueViolation(username, email)
          /\ Len(users) < MaxUsers
          /\ LET token == jwtSign(Len(users) + 1, username, JWT_SECRET, now) IN
             /\ users' = Append(users, NewUser(username, email, bcryptHash(password, salt)))
             /\ tokens' = tokens \cup {token}
             /\ last' = [Answer("register", 201, Missing) EXCEPT !.token = token]
    /\ UNCHANGED <<lockoutColumns, logins, nLogins, wrongEvaluated, outcomes, now,
                   devices, deviceSeq, sensor_data, dataSeq, reads>>

\* ---------------------------------------------------- POST /api/auth/login
Slots == 1..MaxInFlight

\* A slot holds one request: pc "idle" (free), "compare" (waiting for
\* bcrypt.compare), "update" (answered, its UPDATE not yet executed) or "done"
\* (answered and nothing left to run; the slot may be taken again).
\* late: the request arrived after LockThreshold wrong guesses on its account
\* had been answered and had their UPDATE executed, with no success since.
IdleLogin ==
    [pc |-> "idle", email |-> Missing, password |-> Missing, user |-> NoUser,
     stmt |-> NoStatement, resp |-> NoResponse, updateErr |-> FALSE, late |-> FALSE]

Free(r) == logins[r].pc \in {"idle", "done"}

\* Lines 147-151.
LockedResponse == Response(403, "Account locked due to too many failed attempts.")

\* Lines 142-144: no row has the email.
NotFoundResponse == Response(401, "Invalid credentials")

\* What the caller can tell from a response.
Outcome(resp) == <<resp.status, resp.error, resp.remaining, resp.token.id>>

\* The response of a request on a registered account joins the account's bag.
Completed(email, password, resp) ==
    [outcomes EXCEPT ![email] = @ (+) SetToBag({<<password, Outcome(resp)>>})]

\* Lines 130-152: validation, db.get and its callback up to the await of
\* bcrypt.compare.  `user` is the row as the SELECT saw it.
LoginPost(r, email, password) ==
    /\ Free(r)
    /\ \A q \in Slots : q < r => ~Free(q)
    /\ nLogins < MaxLogins
    /\ nLogins' = nLogins + 1
    /\ LET user == UserByEmail(email)
           late == /\ email \in Emails
                   /\ wrongEvaluated[email] >= LockThreshold
                   /\ \A q \in Slots : logins[q].pc = "update" => logins[q].email # email
           req == [IdleLogin EXCEPT !.email = email, !.password = password,
                                    !.late = late]
           answered(resp) == [logins EXCEPT ![r] = [req EXCEPT !.pc = "done",
                                                               !.resp = resp]]
       IN
       IF email = Missing \/ password = Missing
       THEN /\ logins' = answered(Response(400, "Email and password required"))
            /\ UNCHANGED outcomes
       ELSE IF user = NoUser
       THEN /\ logins' = answered(NotFoundResponse)
            /\ UNCHANGED outcomes
       ELSE IF user.is_locked = 1
       THEN /\ logins' = answered(LockedResponse)
            /\ outcomes' = Completed(email, password, LockedResponse)
       ELSE /\ logins' = [logins EXCEPT ![r] = [req EXCEPT !.pc = "compare",
                                                            !.user = user]]
            /\ UNCHANGED outcomes
    /\ UNCHANGED <<lockoutColumns, users, wrongEvaluated, last, now, tokens,
                   devices, deviceSeq, sensor_data, dataSeq, reads>>

\* A reset that writes back the counter it read instead of 0.
Decide_NoReset(user, password, t) ==
    LET validPassword == bcryptCompare(password, user.password)
        newAttempts == user.failed_attempts + 1
    IN
    IF ~validPassword
    THEN IF newAttempts >= LockThreshold
         THEN [stmt |-> [sql |-> "lock", attempts |-> newAttempts],
               resp |-> Response(403, "Account locked after 3 failed attempts.")]
         ELSE [stmt |-> [sql |-> "count", attempts |-> newAttempts],
               resp |-> AttemptsLeftResponse(newAttempts)]
    ELSE [stmt |-> [sql |-> "reset", attempts |-> user.failed_attempts],
          resp |-> TokenResponse(200, jwtSign(user.id, user.username, JWT_SECRET, t))]

\* A threshold test with > in place of >=.
Decide_LockAbove(user, password, t) ==
    LET validPassword == bcryptCompare(password, user.password)
        newAttempts == user.failed_attempts + 1
    IN
    IF ~validPassword
    THEN IF newAttempts > LockThreshold
         THEN [stmt |-> [sql |-> "lock", attempts |-> newAttempts],
               resp |-> Response(403, "Account locked after 3 failed attempts.")]
         ELSE [stmt |-> [sql |-> "count", attempts |-> newAttempts],
               resp |-> AttemptsLeftResponse(newAttempts)]
    ELSE [stmt |-> [sql |-> "reset", attempts |-> 0],
          resp |-> TokenResponse(200, jwtSign(user.id, user.username, JWT_SECRET, t))]

\* Lines 154-213 as a function of the row read and the password given: the
\* UPDATE handed to the database and the response.
Decide(user, password, t) ==
    LET validPassword == bcryptCompare(password, user.password)
        newAttempts == user.failed_attempts + 1
    IN
    IF ~validPassword
    THEN IF newAttempts >= LockThreshold
         THEN [stmt |-> [sql |-> "lock", attempts |-> newAttempts],
               resp |-> Response(403, "Account locked after 3 failed attempts.")]
         ELSE [stmt |-> [sql |-> "count", attempts |-> newAttempts],
               resp |-> AttemptsLeftResponse(newAttempts)]
    ELSE [stmt |-> [sql |-> "reset", attempts |-> 0],
          resp |-> TokenResponse(200, jwtSign(user.id, user.username, JWT_SECRET, t))]

\* The continuation after bcrypt.compare.  It decides from the row read
\* earlier, hands one UPDATE to the database and answers at once, without
\* waiting for the UPDATE's callback.
LoginCompare(r) ==
    /\ logins[r].pc = "compare"
    /\ LET d == Decide(logins[r].user, logins[r].password, now)
           e == logins[r].email
       IN
       /\ logins' = [logins EXCEPT ![r].pc = "update", ![r].stmt = d.stmt,
                                   ![r].resp = d.resp]
       /\ wrongEvaluated' = [wrongEvaluated EXCEPT
                               ![e] = IF d.stmt.sql = "reset" THEN 0 ELSE @ + 1]
       /\ tokens' = IF d.resp.token = NoToken THEN tokens ELSE tokens \cup {d.resp.token}
    /\ UNCHANGED <<lockoutColumns, users, nLogins, outcomes, last, now,
                   devices, deviceSeq, sensor_data, dataSeq, reads>>

\* A reset that also clears the lock flag.
UpdatedRow_ClearsLock(row, stmt) ==
    IF stmt.sql = "lock"
    THEN [row EXCEPT !.failed_attempts = stmt.attempts, !.is_locked = 1]
    ELSE IF stmt.sql = "reset"
    THEN [row EXCEPT !.failed_attempts = stmt.attempts, !.is_locked = 0]
    ELSE [row EXCEPT !.failed_attempts = stmt.attempts]

\* The row after one of the three UPDATE statements of the handler:
\*   UPDATE users SET failed_attempts = ?, is_locked = 1 WHERE id = ?
\*   UPDATE users SET failed_attempts = ? WHERE id = ?
\*   UPDATE users SET failed_attempts = 0 WHERE id = ?
UpdatedRow(row, stmt) ==
    IF stmt.sql = "lock"
    THEN [row EXCEPT !.failed_attempts = stmt.attempts, !.is_locked = 1]
    ELSE [row EXCEPT !.failed_attempts = stmt.attempts]

\* An UPDATE without its WHERE clause.
UpdatedUsers_NoWhere(id, stmt) ==
    [i \in 1..Len(users) |-> UpdatedRow(users[i], stmt)]

\* Table users after UPDATE users SET ... WHERE id = ?
UpdatedUsers(id, stmt) ==
    [users EXCEPT ![id] = UpdatedRow(@, stmt)]

\* The database executes the UPDATE of request r and calls its callback,
\* which logs updateErr and does nothing else.  The statement names columns
\* failed_attempts / is_locked: on a table without them it fails with
\* "no such column" and changes nothing.
LoginUpdate(r) ==
    /\ logins[r].pc = "update"
    /\ outcomes' = Completed(logins[r].email, logins[r].password, logins[r].resp)
    /\ \/ /\ lockoutColumns
          /\ users' = UpdatedUsers(logins[r].user.id, logins[r].stmt)
          /\ logins' = [logins EXCEPT ![r].pc = "done"]
       \/ /\ ~lockoutColumns
          /\ logins' = [logins EXCEPT ![r].pc = "done", ![r].updateErr = TRUE]
          /\ UNCHANGED users
    /\ UNCHANGED <<lockoutColumns, nLogins, wrongEvaluated, last, now, tokens,
                   devices, deviceSeq, sensor_data, dataSeq, reads>>

\* -------------------------------------------------------- authenticateToken
\* A guard that answers a token that fails to verify like a missing one.
authenticateToken_AllMissing(token) ==
    IF token = NoToken \/ jwtVerify(token, JWT_SECRET, now) # "ok"
    THEN [status |-> 401, error |-> "Access token required", err |-> Missing, user |-> 0]
    ELSE [status |-> 0, error |-> Missing, err |-> "ok", user |-> token.id]

\* Lines 70-85: the bearer token of the Authorization header (NoToken when the
\* header is missing), verified with the process secret.  status 0 stands for
\* next(), with req.user = the token's payload.
authenticateToken(token) ==
    IF token = NoToken
    THEN [status |-> 401, error |-> "Access token required", err |-> Missing, user |-> 0]
    ELSE LET err == jwtVerify(token, JWT_SECRET, now) IN
         IF err # "ok"
         THEN [status |-> 403, error |-> "Invalid or expired token", err |-> err,
               user |-> 0]
         ELSE [status |-> 0, error |-> Missing, err |-> err, user |-> token.id]

\* The response of a route whose middleware has refused the request.
Refused(op, token) ==
    LET a == authenticateToken(token) IN
    [Answer(op, a.status, a.error) EXCEPT !.bearer = token, !.err = a.err]

\* The response of a route's own handler.
Handled(op, token, status, error) ==
    [Answer(op, status, error) EXCEPT !.bearer = token, !.err = "ok"]

\* ------------------------------------------------------- GET /api/auth/me
\* SELECT id, username, email FROM users WHERE id = ?
UserById(id) ==
    {[id |-> users[i].id, username |-> users[i].username, email |-> users[i].email] :
        i \in {j \in 1..Len(users) : users[j].id = id}}

Me(token) ==
    /\ last = NoLast
    /\ \/ /\ authenticateToken(token).status # 0
          /\ last' = Refused("me", token)
       \/ /\ authenticateToken(token).status = 0
          /\ last' = [Handled("me", token, 200, Missing) EXCEPT
                        !.rows = UserById(authenticateToken(token).user)]
    /\ UNCHANGED <<lockoutColumns, users, logins, nLogins, wrongEvaluated, outcomes,
                   now, tokens, devices, deviceSeq, sensor_data, dataSeq, reads>>

\* ---------------------------------------------------------- device routes
\* Who owns the device with this device_id, seen from user: "self", "other",
\* or "none" where no device has it.  Kept with responses and readings to
\* state the claims; the code computes no such thing.
OwnerOf(deviceId, user) ==
    IF \E d \in devices : d.device_id = deviceId /\ d.user_id = user THEN "self"
    ELSE IF \E d \in devices : d.device_id = deviceId THEN "other"
    ELSE "none"

\* The account that owns the device with this device_id, 0 where no device
\* has it.  Kept with readings, like OwnerOf.
OwnerId(deviceId) ==
    IF \E d \in devices : d.device_id = deviceId
    THEN (CHOOSE d \in devices : d.device_id = deviceId).user_id
    ELSE 0

\* The same for a devices.id.
OwnerOfRow(id, user) ==
    IF \E d \in devices : d.id = id /\ d.user_id = user THEN "self"
    ELSE IF \E d \in devices : d.id = id THEN "other"
    ELSE "none"

\* GET /api/devices, lines 235-242: SELECT * FROM devices WHERE user_id = ?
ListDevices(token) ==
    /\ last = NoLast
    /\ \/ /\ authenticateToken(token).status # 0
          /\ last' = Refused("devices", token)
       \/ /\ authenticateToken(token).status = 0
          /\ last' = [Handled("devices", token, 200, Missing) EXCEPT
                        !.rows = {d \in devices :
                                    d.user_id = authenticateToken(token).user}]
    /\ UNCHANGED <<lockoutColumns, users, logins, nLogins, wrongEvaluated, outcomes,
                   now, tokens, devices, deviceSeq, sensor_data, dataSeq, reads>>

\* A table whose device_id column is not UNIQUE.
DeviceIdTaken_Never(device_id) == FALSE

\* The UNIQUE constraint on devices.device_id: the INSERT fails when a row,
\* of any user, has the identifier.
DeviceIdTaken(device_id) == \E d \in devices : d.device_id = device_id

\* POST /api/devices, lines 245-275.
AddDevice(token, device_name, device_type, device_id) ==
    /\ last = NoLast
    /\ LET a == authenticateToken(token) IN
       \/ /\ a.status # 0
          /\ last' = Refused("add-device", token)
          /\ UNCHANGED <<devices, deviceSeq>>
       \/ /\ a.status = 0
          /\ (device_name = Missing \/ device_type = Missing \/ device_id = Missing)
          /\ last' = Handled("add-device", token, 400, "All fields are required")
          /\ UNCHANGED <<devices, deviceSeq>>
       \/ /\ a.status = 0
          /\ device_name # Missing /\ device_type # Missing /\ device_id # Missing
          /\ DeviceIdTaken(device_id)
          /\ last' = [Handled("add-device", token, 409, "Device ID already exists")
                        EXCEPT !.device = device_id,
                               !.owner = OwnerOf(device_id, a.user)]
          /\ UNCHANGED <<devices, deviceSeq>>
       \/ /\ a.status = 0
          /\ device_name # Missing /\ device_type # Missing /\ device_id # Missing
          /\ ~DeviceIdTaken(device_id)
          /\ deviceSeq < MaxDeviceRows
          /\ LET row == [id |-> deviceSeq + 1, user_id |-> a.user,
                         device_name |-> device_name, device_type |-> device_type,
                         device_id |-> device_id, status |-> "online"]
             IN /\ devices' = devices \cup {row}
                /\ deviceSeq' = deviceSeq + 1
                /\ last' = [Handled("add-device", token, 201, Missing) EXCEPT
                              !.device = device_id, !.owner = "none", !.rows = {row}]
    /\ UNCHANGED <<lockoutColumns, users, logins, nLogins, wrongEvaluated, outcomes,
                   now, tokens, sensor_data, dataSeq, reads>>

\* DELETE FROM devices WHERE id = ? AND user_id = ?: the rows it deletes.
DeviceRows(id, user) == {d \in devices : d.id = id /\ d.user_id = user}

\* DELETE /api/devices/:id, lines 278-296.
DeleteDevice(token, id) ==
    /\ last = NoLast
    /\ LET a == authenticateToken(token) IN
       \/ /\ a.status # 0
          /\ last' = Refused("delete-device", token)
          /\ UNCHANGED devices
       \/ /\ a.status = 0
          /\ DeviceRows(id, a.user) = {}
          /\ last' = [Handled("delete-device", token, 404, "Device not found") EXCEPT
                        !.rowid = id, !.owner = OwnerOfRow(id, a.user)]
          /\ UNCHANGED devices
       \/ /\ a.status = 0
          /\ DeviceRows(id, a.user) # {}
          /\ devices' = devices \ DeviceRows(id, a.user)
          /\ last' = [Handled("delete-device", token, 200, Missing) EXCEPT
                        !.rowid = id, !.owner = OwnerOfRow(id, a.user)]
    /\ UNCHANGED <<lockoutColumns, users, logins, nLogins, wrongEvaluated, outcomes,
                   now, tokens, deviceSeq, sensor_data, dataSeq, reads>>

\* ------------------------------------------------------ sensor-data routes
\* SELECT * FROM devices WHERE device_id = ? AND user_id = ?
OwnedDevice_AnyOwner(deviceId, user) == {d \in devices : d.device_id = deviceId}

OwnedDevice(deviceId, user) ==
    {d \in devices : d.device_id = deviceId /\ d.user_id = user}

\* GET /api/sensor-data/:deviceId, lines 301-311: the middleware and the first
\* statement with its callback, which answers 404 or hands the second
\* statement to the database.
SensorDataGet(token, deviceId) ==
    /\ last = NoLast
    /\ LET a == authenticateToken(token) IN
       \/ /\ a.status # 0
          /\ last' = Refused("sensor-data", token)
          /\ UNCHANGED reads
       \/ /\ a.status = 0
          /\ OwnedDevice(deviceId, a.user) = {}
          /\ last' = [Handled("sensor-data", token, 404, "Device not found") EXCEPT
                        !.device = deviceId, !.owner = OwnerOf(deviceId, a.user)]
          /\ UNCHANGED reads
       \/ /\ a.status = 0
          /\ OwnedDevice(deviceId, a.user) # {}
          /\ Cardinality(reads) < MaxPendingReads
          /\ reads' = reads \cup {[bearer |-> token, user |-> a.user,
                                   device |-> deviceId,
                                   owner |-> OwnerOf(deviceId, a.user)]}
          /\ UNCHANGED last
    /\ UNCHANGED <<lockoutColumns, users, logins, nLogins, wrongEvaluated, outcomes,
                   now, tokens, devices, deviceSeq, sensor_data, dataSeq>>

\* Lines 313-322: SELECT * FROM sensor_data WHERE device_id = ? ORDER BY
\* timestamp DESC LIMIT ? and its callback.  The limit (50 by default) is
\* above MaxReadings; the rows are kept as a set.
SensorDataAll(rd) ==
    /\ last = NoLast
    /\ rd \in reads
    /\ reads' = reads \ {rd}
    /\ last' = [Handled("sensor-data", rd.bearer, 200, Missing) EXCEPT
                  !.device = rd.device, !.owner = rd.owner,
                  !.rows = {x \in sensor_data : x.device_id = rd.device}]
    /\ UNCHANGED <<lockoutColumns, users, logins, nLogins, wrongEvaluated, outcomes,
                   now, tokens, devices, deviceSeq, sensor_data, dataSeq>>

\* POST /api/demo/generate-data/:deviceId, lines 328-345.  The INSERT names no
\* user and the handler reads no device; FOREIGN KEY (device_id) is not
\* enforced, as the connection never turns PRAGMA foreign_keys on.
\* by / owner / owned_by: who asked, OwnerOf the device for them and the
\* OwnerId of the device, at the INSERT.
GenerateData(token, deviceId, sample) ==
    /\ last = NoLast
    /\ LET a == authenticateToken(token) IN
       \/ /\ a.status # 0
          /\ last' = Refused("generate-data", token)
          /\ UNCHANGED <<sensor_data, dataSeq>>
       \/ /\ a.status = 0
          /\ dataSeq < MaxReadings
          /\ sensor_data' = sensor_data \cup
                {[id |-> dataSeq + 1, device_id |-> deviceId,
                  temperature |-> sample[1], humidity |-> sample[2],
                  pressure |-> sample[3], by |-> a.user,
                  owner |-> OwnerOf(deviceId, a.user),
                  owned_by |-> OwnerId(deviceId)]}
          /\ dataSeq' = dataSeq + 1
          /\ last' = [Handled("generate-data", token, 200, Missing) EXCEPT
                        !.device = deviceId, !.owner = OwnerOf(deviceId, a.user)]
    /\ UNCHANGED <<lockoutColumns, users, logins, nLogins, wrongEvaluated, outcomes,
                   now, tokens, devices, deviceSeq, reads>>

\* ------------------------------------------------------------- responses
\* The response kept in `last` goes out.  The routes other than login are
\* taken one request at a time: each runs once the response before it is out.
Respond ==
    /\ last # NoLast
    /\ last' = NoLast
    /\ UNCHANGED <<lockoutColumns, users, logins, nLogins, wrongEvaluated, outcomes,
                   now, tokens, devices, deviceSeq, sensor_data, dataSeq, reads>>

\* ------------------------------------------------------------------- time
\* Time passes.
Tick ==
    /\ \E t \in Times : t > now
    /\ now' = CHOOSE t \in Times : t > now /\ \A u \in Times : u > now => t <= u
    /\ UNCHANGED <<lockoutColumns, users, logins, nLogins, wrongEvaluated, outcomes,
                   last, tokens, devices, deviceSeq, sensor_data, dataSeq, reads>>

\* ------------------------------------------------------------ specification

\* The state after startup.  CREATE TABLE IF NOT EXISTS users creates the
\* table without failed_attempts and is_locked, and keeps a table that is
\* already in sensor_system.db as it is: the columns the login handler reads
\* and writes exist only in the second case.
Init ==
    /\ lockoutColumns \in BOOLEAN
    /\ users = <<>>
    /\ logins = [r \in Slots |-> IdleLogin]
    /\ nLogins = 0
    /\ wrongEvaluated = [e \in Emails |-> 0]
    /\ outcomes = [e \in Emails |-> EmptyBag]
    /\ last = NoLast
    /\ now = 0
    /\ tokens = {}
    /\ devices = {}
    /\ deviceSeq = 0
    /\ sensor_data = {}
    /\ dataSeq = 0
    /\ reads = {}

Next ==
    \/ \E in \in RegisterInputs, s \in Salts : Register(in[1], in[2], in[3], s)
    \/ \E r \in Slots, in \in LoginInputs : LoginPost(r, in[1], in[2])
    \/ \E r \in Slots : LoginCompare(r)
    \/ \E r \in Slots : LoginUpdate(r)
    \/ Respond

Spec == Init /\ [][Next]_vars

\* The tokens a request may present: those issued, one signed with another
\* key, and none.
BadBearers == {NoToken, jwtSign(1, "alice", ForgedKey, now)}

Bearers == tokens \cup BadBearers

\* A bearer string that is not a JWT at all: jwt.verify fails to parse it and
\* passes a JsonWebTokenError ("jwt malformed"), as for a bad signature.
MalformedToken ==
    [id |-> 0, username |-> Missing, iat |-> 0, exp |-> 0, key |-> "malformed"]

\* Sessions over time: registration and login issue tokens, the clock runs,
\* and GET /api/auth/me verifies them.
NextToken ==
    \/ \E in \in {<<"alice", "a@x", "P1">>, <<Missing, "a@x", "P1">>}, s \in Salts :
          Register(in[1], in[2], in[3], s)
    \/ \E r \in Slots : LoginPost(r, "a@x", "P1")
    \/ \E r \in Slots : LoginCompare(r)
    \/ \E r \in Slots : LoginUpdate(r)
    \/ \E token \in Bearers \cup {MalformedToken} : Me(token)
    \/ Tick
    \/ Respond

SpecToken == Init /\ [][NextToken]_vars

\* Devices and sensor data: users register, and present their tokens (or a
\* forged one, or none) to the device and sensor-data routes.
NextDevice ==
    \/ \E in \in RegisterInputs, s \in Salts : Register(in[1], in[2], in[3], s)
    \/ \E token \in Bearers : ListDevices(token)
    \/ \E token \in tokens, id \in DeviceIds \cup {Missing} :
          AddDevice(token, "name", "type", id)
    \/ \E token \in tokens, id \in 1..MaxDeviceRows : DeleteDevice(token, id)
    \/ \E token \in tokens, id \in DeviceIds : SensorDataGet(token, id)
    \/ \E rd \in reads : SensorDataAll(rd)
    \/ \E token \in tokens, id \in DeviceIds, sample \in Samples :
          GenerateData(token, id, sample)
    \/ \E token \in BadBearers :
          \/ AddDevice(token, "name", "type", "dev-1")
          \/ DeleteDevice(token, 1)
          \/ SensorDataGet(token, "dev-1")
          \/ GenerateData(token, "dev-1", <<"18.00", "40.00", "980.00">>)
    \/ Respond

SpecDevice == Init /\ [][NextDevice]_vars

\* Registrations that collide: every username with every email, while wrong
\* logins move the counters of the accounts that exist.
NextRegister ==
    \/ \E username \in Usernames \cup {Missing}, email \in Emails, s \in Salts :
          Register(username, email, "P1", s)
    \/ \E r \in Slots, email \in Emails : LoginPost(r, email, "X")
    \/ \E r \in Slots : LoginCompare(r)
    \/ \E r \in Slots : LoginUpdate(r)
    \/ Respond

SpecRegister == Init /\ [][NextRegister]_vars

\* ------------------------------------------------- sequential executions
\* The login handler run from start to end with nothing in between, on a
\* table that has the lockout columns: LoginPost, LoginCompare, LoginUpdate.
SeqLogin(row, password) ==
    IF row.is_locked = 1
    THEN [row |-> row, resp |-> LockedResponse]
    ELSE LET d == Decide(row, password, now)
         IN [row |-> UpdatedRow(row, d.stmt), resp |-> d.resp]

\* Is there an order of the requests in `bag` in which SeqLogin, started on
\* `row`, gives each request the outcome recorded for it and ends in a row
\* with the counter and lock flag of `final`?
RECURSIVE Serial(_, _, _)
Serial(row, bag, final) ==
    IF BagToSet(bag) = {}
    THEN /\ row.failed_attempts = final.failed_attempts
         /\ row.is_locked = final.is_locked
    ELSE \E x \in BagToSet(bag) :
            LET step == SeqLogin(row, x[1]) IN
            /\ Outcome(step.resp) = x[2]
            /\ Serial(step.row, bag (-) SetToBag({x}), final)

\* No request on the account is between its SELECT and its UPDATE.
Quiescent(email) ==
    \A r \in Slots : logins[r].pc \in {"compare", "update"} => logins[r].email # email

Registered == {e \in Emails : UserByEmail(e) # NoUser}

\* ------------------------------------------------------------------ claims

\* C1: after 3 consecutive wrong-password logins on an account, with no
\* success in between, the account is locked, and every later login on it
\* (whatever its password) fails with the lockout error and gets no token.
C1_LockedAfterThreeWrong ==
    /\ \A e \in Registered :
          (wrongEvaluated[e] >= LockThreshold /\ Quiescent(e))
              => UserByEmail(e).is_locked = 1
    /\ \A r \in Slots :
          (logins[r].late /\ logins[r].pc \in {"update", "done"})
              => logins[r].resp = LockedResponse

\* C2: concurrent logins on one account are atomic: once they have all ended,
\* their outcomes and the stored counter and lock flag are those of the same
\* requests run one after the other in some order (stated for a table that
\* has the lockout columns, where a run one after the other does count).
C2_LoginsSerializable ==
    \A e \in Registered :
        (lockoutColumns /\ Quiescent(e))
            => Serial([UserByEmail(e) EXCEPT !.failed_attempts = 0, !.is_locked = 0],
                      outcomes[e], UserByEmail(e))

\* C3: between two successful logins of an account (or since registration)
\* at most 3 wrong passwords are compared and answered.
C3_AtMostThreeWrongEvaluated ==
    \A e \in Emails : wrongEvaluated[e] <= LockThreshold

\* C4: the stored pair (counter, lock flag) of every account is (c, false)
\* with 0 <= c < 3, or (3, true).
C4_LockFlagIffThreshold ==
    \A i \in 1..Len(users) :
        \/ users[i].is_locked = 0 /\ users[i].failed_attempts \in 0..(LockThreshold - 1)
        \/ users[i].is_locked = 1 /\ users[i].failed_attempts = LockThreshold

\* Request r's UPDATE executes in this step, on a row that still has the
\* counter and lock flag r read: nothing came between r's SELECT and UPDATE.
UpdateUndisturbed(r) ==
    /\ logins[r].pc = "update"
    /\ logins'[r].pc = "done"
    /\ users[logins[r].user.id].failed_attempts = logins[r].user.failed_attempts
    /\ users[logins[r].user.id].is_locked = logins[r].user.is_locked

\* Slot r takes a new login request in this step.
Arrives(r) ==
    /\ nLogins' = nLogins + 1
    /\ logins'[r] # logins[r]

\* C5: a lock flag that is set is never cleared, and a login that finds its
\* account locked is answered with the lockout error at once and changes
\* neither counter nor lock flag.
C5_LockedIsAbsorbing ==
    [][/\ \A i \in 1..Len(users) : users[i].is_locked = 1 => users'[i].is_locked = 1
       /\ \A r \in Slots :
            (/\ Arrives(r)
             /\ logins'[r].resp.status # 400
             /\ UserByEmail(logins'[r].email).is_locked = 1)
                => /\ logins'[r].pc = "done"
                   /\ logins'[r].resp = LockedResponse
                   /\ users' = users]_vars

\* A login has found its account locked and was answered with the lockout error.
C5_Witness ==
    \E r \in Slots :
        /\ logins[r].pc = "done"
        /\ logins[r].resp = LockedResponse
        /\ UserByEmail(logins[r].email).is_locked = 1

\* C8: one wrong-password login on an account in ACTIVE(count), count < 2,
\* reports remaining = 3 - (count + 1), issues no token and leaves the account
\* in ACTIVE(count + 1).
C8_WrongAttemptCounts ==
    [][\A r \in Slots :
         (/\ UpdateUndisturbed(r)
          /\ ~bcryptCompare(logins[r].password, logins[r].user.password)
          /\ logins[r].user.failed_attempts < LockThreshold - 1)
             => LET count == logins[r].user.failed_attempts
                    row == users'[logins[r].user.id]
                IN /\ logins[r].resp.status = 401
                   /\ logins[r].resp.remaining = LockThreshold - (count + 1)
                   /\ logins[r].resp.token = NoToken
                   /\ row.failed_attempts = count + 1
                   /\ row.is_locked = 0]_vars

\* C9: a login with the correct password on an account in ACTIVE(count)
\* succeeds with a token for that account and leaves it in ACTIVE(0).
C9_SuccessResets ==
    [][\A r \in Slots :
         (/\ UpdateUndisturbed(r)
          /\ bcryptCompare(logins[r].password, logins[r].user.password))
             => LET row == users'[logins[r].user.id]
                IN /\ logins[r].resp.status = 200
                   /\ logins[r].resp.token.id = row.id
                   /\ logins[r].resp.token.username = row.username
                   /\ logins[r].resp.token.key = JWT_SECRET
                   /\ row.failed_attempts = 0
                   /\ row.is_locked = 0]_vars

\* A correct password has reset a counter that was not 0.
C9_Witness ==
    \E r \in Slots :
        /\ logins[r].pc = "done"
        /\ logins[r].resp.status = 200
        /\ logins[r].user.failed_attempts > 0
        /\ UserByEmail(logins[r].email).failed_attempts = 0
        /\ UserByEmail(logins[r].email).is_locked = 0

\* C6: every device and sensor-data operation checks ownership first: no
\* reading is inserted for, and nothing is read or deleted through, a device
\* identifier that is not a device of the requester.
C6_OwnershipCheckedEverywhere ==
    /\ \A x \in sensor_data : x.owner = "self"
    /\ (last.op \in {"sensor-data", "delete-device", "generate-data"}
            /\ last.status = 200)
          => last.owner = "self"
    /\ (last.op = "devices" /\ last.status = 200)
          => \A d \in last.rows : d.user_id = last.bearer.id

\* The authorization check of a request has been decided (the request was not
\* refused by authenticateToken).
Checked == last.op \in {"sensor-data", "delete-device"} /\ last.owner # Missing

\* C7 as claimed: OK iff the requester owns the device, FORBIDDEN (403) for a
\* device of another user, NOT_FOUND (404) where there is no such device.
C7_ThreeOutcomes ==
    Checked =>
        /\ last.owner = "self" <=> last.status = 200
        /\ last.owner = "other" => last.status = 403
        /\ last.owner = "none" => last.status = 404

\* C7 as the code has it: OK iff the requester owns the device; a device of
\* another user and a device that does not exist are both answered 404
\* "Device not found", and a read goes on to its second statement only for
\* the owner.
C7_OwnerOrNotFound ==
    /\ Checked =>
        /\ last.owner = "self" <=> last.status = 200
        /\ last.owner \in {"other", "none"}
              => last.status = 404 /\ last.error = "Device not found"
    /\ \A rd \in reads : rd.owner = "self"

\* A user has asked for the sensor data of another user's device.
C7_Witness ==
    /\ last.op = "sensor-data"
    /\ last.owner = "other"
    /\ last.status = 404

\* C10: a token issued at time t verifies to the identity it was issued for
\* at every time before t + 24h and fails as expired at every time after it;
\* only tokens signed with the process secret verify.
C10_TokenRoundTrip ==
    /\ \A token \in tokens :
          \E i \in 1..Len(users) :
              users[i].id = token.id /\ users[i].username = token.username
    /\ last.op = "me" =>
          /\ (last.bearer \in tokens /\ last.at < last.bearer.iat + TokenLifetime)
                => /\ last.status = 200
                   /\ \A u \in last.rows :
                          u.id = last.bearer.id /\ u.username = last.bearer.username
                   /\ last.rows # {}
          /\ (last.bearer \in tokens /\ last.at > last.bearer.iat + TokenLifetime)
                => last.status = 403 /\ last.err = "TokenExpiredError"
          /\ last.status = 200
                => last.bearer \in tokens /\ last.bearer.key = JWT_SECRET

\* A token has been presented more than 24 hours after it was issued.
C10_Witness ==
    /\ last.op = "me"
    /\ last.bearer \in tokens
    /\ last.at > last.bearer.iat + TokenLifetime
    /\ last.status = 403

\* The response authenticateToken gives a token signed with another key, now.
ForgedAnswer == authenticateToken(jwtSign(1, "alice", ForgedKey, now))

\* What the caller sees of a refusal.
Seen(a) == <<a.status, a.error>>

\* C11 as claimed: the guard has three distinct failure answers, for a missing
\* token, for a token with a bad signature or that cannot be parsed, and for
\* an expired one; an expired token is not answered like a forged one.
C11_ThreeGuardErrors ==
    (last.op = "me" /\ last.err = "TokenExpiredError")
        => /\ Seen(last) # Seen(ForgedAnswer)
           /\ Seen(last) # Seen(authenticateToken(MalformedToken))
           /\ Seen(last) # Seen(authenticateToken(NoToken))

\* C11 as the code has it: two failure answers.  A request without a token
\* gets 401 "Access token required"; a token that fails to verify, whether
\* forged, malformed or expired, gets 403 "Invalid or expired token"; a
\* request is refused exactly when its token is missing or fails to verify.
C11_TwoGuardErrors ==
    last.op = "me" =>
        /\ last.bearer = NoToken
              <=> (last.status = 401 /\ last.error = "Access token required")
        /\ (last.bearer # NoToken /\ last.err # "ok")
              <=> (last.status = 403 /\ last.error = "Invalid or expired token")
        /\ last.bearer \in {MalformedToken, jwtSign(1, "alice", ForgedKey, last.at)}
              => last.err = "JsonWebTokenError"
        /\ last.err = "TokenExpiredError"
              => /\ last.bearer \in tokens
                 /\ last.at >= last.bearer.exp
                 /\ Seen(last) = Seen(ForgedAnswer)
        /\ last.status \in {200, 401, 403}

\* An expired token has been refused with the answer a forged one gets.
C11_Witness ==
    /\ last.op = "me"
    /\ last.err = "TokenExpiredError"
    /\ last.error = "Invalid or expired token"

\* Request r has been answered.
Answered(r) == logins[r].pc \in {"update", "done"}

\* C12: a login with a password that does not match is answered the same
\* whether or not an account has the email: a wrong password on a registered
\* email gets the response the same request gets while the email is not
\* registered.
C12_EmailExistenceHidden ==
    \A r \in Slots :
        LET user == UserByEmail(logins[r].email) IN
        (/\ Answered(r)
         /\ user # NoUser
         /\ ~bcryptCompare(logins[r].password, user.password))
            => Outcome(logins[r].resp) = Outcome(NotFoundResponse)

\* C13: a login whose UPDATE of the counter or lock flag failed is answered
\* with an internal error, never with the success, "attempts left" or
\* "locked" response of a write that took effect.
C13_WriteFailureSurfaced ==
    \A r \in Slots : logins[r].updateErr => logins[r].resp.status = 500

\* No two rows of table users share a username, an email or an id.
UsersUnique ==
    \A i, j \in 1..Len(users) :
        (\/ users[i].username = users[j].username
         \/ users[i].email = users[j].email
         \/ users[i].id = users[j].id) => i = j

\* C14: a registration is answered 400, 409 or 201.  Refused, it creates no
\* account, issues no token and changes no account.  Accepted, it appends one
\* account with counter 0 and no lock, whose username and email no account
\* had, and changes no other; its token names the new account.  Usernames and
\* emails stay unique.
C14_RegistrationUnique ==
    [][(last = NoLast /\ last'.op = "register") =>
          /\ last'.status \in {400, 409, 201}
          /\ last'.status \in {400, 409} =>
                /\ users' = users
                /\ tokens' = tokens
                /\ last'.token = NoToken
          /\ last'.status = 201 =>
                LET row == users'[Len(users')] IN
                /\ Len(users') = Len(users) + 1
                /\ SubSeq(users', 1, Len(users)) = users
                /\ \A i \in 1..Len(users) :
                      users[i].username # row.username /\ users[i].email # row.email
                /\ row.failed_attempts = 0 /\ row.is_locked = 0
                /\ last'.token = jwtSign(row.id, row.username, JWT_SECRET, now)
                /\ tokens' = tokens \cup {last'.token}
          /\ UsersUnique']_vars

\* A registration was refused as a conflict while an account had a counter
\* above 0.
C14_Witness ==
    /\ last.op = "register"
    /\ last.status = 409
    /\ \E i \in 1..Len(users) : users[i].failed_attempts > 0

\* No two rows of table devices share a device_id or an id, and the user_id
\* of every row is the id of an account.
DevicesUnique ==
    /\ \A d, e \in devices : (d.device_id = e.device_id \/ d.id = e.id) => d = e
    /\ \A d \in devices : \E i \in 1..Len(users) : users[i].id = d.user_id

\* C15: device identifiers stay unique and every device has one owner, an
\* account, whatever is added and deleted.  Adding an identifier that a
\* device of any user has is answered 409 and changes no device; an accepted
\* add inserts one device, owned by the requester, under an identifier no
\* device had.
C15_DeviceIdsUnique ==
    [][/\ DevicesUnique'
       /\ (last = NoLast /\ last'.op = "add-device" /\ last'.device # Missing) =>
             /\ last'.status \in {409, 201}
             /\ (\E d \in devices : d.device_id = last'.device) <=> last'.status = 409
             /\ last'.status = 409 => devices' = devices
             /\ last'.status = 201 =>
                   /\ devices' = devices \cup last'.rows
                   /\ \A d \in last'.rows :
                         d.device_id = last'.device /\ d.user_id = last'.bearer.id]_vars

\* A user has tried to add the identifier of another user's device.
C15_Witness ==
    /\ last.op = "add-device"
    /\ last.status = 409
    /\ last.owner = "other"
    /\ deviceSeq = MaxDeviceRows

\* C16: once a login has been answered, the table has the counter and lock
\* flag its UPDATE writes (stated for a table that has the lockout columns,
\* where the UPDATE does succeed).
C16_WriteBeforeResponse ==
    \A r \in Slots :
        (lockoutColumns /\ logins[r].pc = "update")
            => LET row == users[logins[r].user.id]
               IN row = UpdatedRow(row, logins[r].stmt)

\* C17: every reading the sensor-data read returns to a user was recorded
\* for a device that this user owned when it was recorded.  Stated for the
\* readings recorded by the owner their device had at the time, so that it
\* does not rest on the readings C6 is about.
C17_ReadingsOfOwnerOnly ==
    (last.op = "sensor-data" /\ last.status = 200)
        => \A x \in last.rows : x.owner = "self" => x.owned_by = last.bearer.id

\* C18: a step of a login request (its SELECT and answer, its compare, its
\* UPDATE) changes the row of no account other than the one its email names;
\* a login that names no account changes no row.
C18_OtherAccountsUntouched ==
    [][\A r \in Slots :
          logins'[r] # logins[r] =>
              /\ Len(users') = Len(users)
              /\ \A i \in 1..Len(users) :
                    users[i].email # logins'[r].email => users'[i] = users[i]]_vars

\* Logins have moved the counters of two accounts to different values.
C18_Witness ==
    /\ UserByEmail("a@x").failed_attempts = 2
    /\ UserByEmail("b@x").failed_attempts = 1
    /\ \E r \in Slots : logins[r].pc = "done" /\ logins[r].email = "b@x"

\* C19: the stored counter of every account, and the counter of every UPDATE
\* on its way to the table, lies in 0..3, whatever the interleaving of logins.
C19_CounterInRange ==
    /\ \A i \in 1..Len(users) : users[i].failed_attempts \in 0..LockThreshold
    /\ \A r \in Slots : logins[r].stmt.attempts \in 0..LockThreshold

\* A counter stands at 3 after more than 3 wrong guesses, two of which were
\* in progress together.
C19_Witness ==
    \E e \in Registered :
        /\ UserByEmail(e).failed_attempts = LockThreshold
        /\ wrongEvaluated[e] > LockThreshold

====
